---- MODULE Spec2Model ----
(***************************************************************************)
(* Model of deploy.sh (the deployment orchestrator).  One run of the       *)
(* script is one behaviour: the argument parsing loop, main and the        *)
(* functions it calls, and the lines that follow `main "$@"`.  External    *)
(* tools (docker, kubectl, minikube, kind) and the file system are the     *)
(* environment: the outcome of each probe or command is chosen when the    *)
(* script performs it.                                                     *)
(*                                                                         *)
(* The module also models api-service/src/server.js: the three route       *)
(* handlers, the connection pool and shutdown.  Spec is a run of the       *)
(* script (the API service stays in its initial state); SpecApi is a life  *)
(* of the API service process (the script's state stays initial).          *)
(***************************************************************************)
EXTENDS Integers, Sequences, FiniteSets, TLC

\* Longest command line explored.
MaxArgs == 3

\* Tokens a command line is drawn from: the recognised options (short form,
\* and the long form of help) and three words no case pattern matches, which
\* also serve as values of -c and -n (a supported cluster type, another name
\* and the empty string).
Tokens ==
    {"-h", "--help", "-c", "-n", "--cleanup", "--cleanup-only", "--no-build",
     "--no-load", "kind", "k3s", ""}

\* Exit statuses a failing external command may return.
FailCodes == {1, 2}

RetCodes == {0} \cup FailCodes

VARIABLES
    argv,            \* the command line of the run ("$@" at start)
    args,            \* the positional parameters still to be parsed
    CLUSTER_TYPE, NAMESPACE,
    CLEANUP_BEFORE, CLEANUP_ONLY, NO_BUILD, NO_LOAD,
    pc,              \* position of the script
    idx,             \* index of the current for-loop iteration
    installed,       \* what `command -v` reported, per tool
    nsExisted,       \* whether the namespace existed when cleanup ran
    deleteFault,     \* status of a failure of the namespace deletion that has
                     \* nothing to do with the namespace's existence (0: none)
    calls,           \* external commands invoked so far, with their status
    out,             \* lines logged so far
    exitCode         \* exit status of the process, NoStatus while it runs

config == <<CLUSTER_TYPE, NAMESPACE, CLEANUP_BEFORE, CLEANUP_ONLY, NO_BUILD, NO_LOAD>>
env == <<installed, nsExisted, deleteFault>>
vars == <<argv, args, config, pc, idx, env, calls, out, exitCode>>

\* No exit status yet: a value outside the statuses 0..255.
NoStatus == 0 - 1

Tools == {"docker", "kubectl", "minikube", "kind"}

services == <<"api-service", "worker-service", "frontend-service">>

deployments == <<"api-service", "worker-service", "frontend-service">>

\* Mutant of manifests: the deployments are applied before the database
\* and the configuration they depend on.
manifestsDeploymentsFirst ==
    <<"k8s/namespace.yaml", "k8s/api-deployment.yaml", "k8s/worker-deployment.yaml",
      "k8s/frontend-deployment.yaml", "k8s/resource-quota.yaml", "k8s/secrets.yaml",
      "k8s/configmap.yaml", "k8s/postgres.yaml",
      "k8s/hpa.yaml", "k8s/network-policies.yaml", "k8s/ingress.yaml">>

manifests ==
    <<"k8s/namespace.yaml", "k8s/resource-quota.yaml", "k8s/secrets.yaml",
      "k8s/configmap.yaml", "k8s/postgres.yaml", "k8s/api-deployment.yaml",
      "k8s/worker-deployment.yaml", "k8s/frontend-deployment.yaml",
      "k8s/hpa.yaml", "k8s/network-policies.yaml", "k8s/ingress.yaml">>

\* The commands that follow `main "$@"` in the script file.
tailCommands == <<"NAME", "api-service-fdcf45986-2njjn", "api-service-fdcf45986-zg5h7">>

NoNs == "n/a"

Call(cmd, arg, ns, rc) == [cmd |-> cmd, arg |-> arg, ns |-> ns, rc |-> rc]

Line(lvl, msg, arg) == [lvl |-> lvl, msg |-> msg, arg |-> arg]

log_info(msg, arg) == Line("INFO", msg, arg)
log_success(msg, arg) == Line("SUCCESS", msg, arg)
log_warning(msg, arg) == Line("WARNING", msg, arg)
log_error(msg, arg) == Line("ERROR", msg, arg)
show_help == Line("USAGE", "Usage: $0 [OPTIONS]", "")

Drop(s, n) == SubSeq(s, n + 1, Len(s))

----------------------------------------------------------------------------
\* State of the API service process (server.js).

\* Connections a client may hold open at once, requests served in one life
\* of the process, and signals delivered to it.
MaxConns == 2
MaxRequests == 2
MaxSignals == 2

\* setTimeout(() => process.exit(0), 5000): the grace period, in seconds.
GraceSeconds == 5

VARIABLES
    listening,       \* the server's listening handle is open
    closeListeners,  \* once('close') callbacks registered by server.close(cb)
    closePending,    \* an emit of 'close' is scheduled (the server is drained)
    pool,            \* "open", "ending" (pool.end() called) or "ended"
    conns,           \* per connection: socket open?, handler awaiting its query
    dbUp,            \* the database answers queries
    arrived,         \* number of requests received so far
    responded,       \* number of responses produced so far
    responses,       \* the distinct responses produced so far
    queries,         \* the distinct pool.query calls so far: route, pool state
    timers,          \* seconds left on each pending forced-exit timer
    elapsed,         \* seconds since the first signal
    signals,         \* signals received so far
    apiExit,         \* exit status of the process, NoStatus while it runs
    exitPath         \* what ended the process

apiVars == <<listening, closeListeners, closePending, pool, conns, dbUp, arrived,
             responded, responses, queries, timers, elapsed, signals, apiExit, exitPath>>

allVars == <<vars, apiVars>>

ConnIds == 1..MaxConns

NoConn == [sock |-> FALSE, handler |-> "none", poolWas |-> "n/a"]

\* The process after `app.listen` and the registration of the signal handlers.
ApiInit ==
    /\ listening = TRUE
    /\ closeListeners = 0
    /\ closePending = FALSE
    /\ pool = "open"
    /\ conns = [c \in ConnIds |-> NoConn]
    /\ dbUp = TRUE
    /\ arrived = 0
    /\ responded = 0
    /\ responses = {}
    /\ queries = {}
    /\ timers = <<>>
    /\ elapsed = 0
    /\ signals = 0
    /\ apiExit = NoStatus
    /\ exitPath = "running"

----------------------------------------------------------------------------
Init ==
    /\ ApiInit
    /\ argv \in UNION {[1..n -> Tokens] : n \in 0..MaxArgs}
    /\ args = argv
    /\ CLUSTER_TYPE = "minikube"
    /\ NAMESPACE = "app"
    /\ CLEANUP_BEFORE = FALSE
    /\ CLEANUP_ONLY = FALSE
    /\ NO_BUILD = FALSE
    /\ NO_LOAD = FALSE
    /\ pc = "parse"
    /\ idx = 0
    /\ installed = [t \in Tools |-> "unknown"]
    /\ nsExisted = "unknown"
    /\ deleteFault = NoStatus
    /\ calls = <<>>
    /\ out = <<>>
    /\ exitCode = NoStatus

\* `exit code`, after logging lines.
Exit(code, lines) ==
    /\ pc' = "exited"
    /\ exitCode' = code
    /\ out' = out \o lines

\* Continue at position p, after logging lines.
Goto(p, i, lines) ==
    /\ pc' = p
    /\ idx' = i
    /\ out' = out \o lines
    /\ exitCode' = exitCode

----------------------------------------------------------------------------
\* Argument parsing loop.

IsHelp(t) == t \in {"-h", "--help"}
IsCluster(t) == t \in {"-c", "--cluster"}
IsNamespace(t) == t \in {"-n", "--namespace"}

\* Mutant of ParseHelp: help is noted and parsing goes on (shift, no exit).
ParseHelpShifts ==
    /\ pc = "parse" /\ args # <<>> /\ IsHelp(Head(args))
    /\ args' = Drop(args, 1)
    /\ out' = Append(out, show_help)
    /\ UNCHANGED <<argv, config, pc, idx, env, calls, exitCode>>
    /\ UNCHANGED apiVars

\* -h|--help) show_help; exit 0
ParseHelp ==
    /\ pc = "parse" /\ args # <<>> /\ IsHelp(Head(args))
    /\ Exit(0, <<show_help>>)
    /\ UNCHANGED <<argv, args, config, idx, env, calls>>
    /\ UNCHANGED apiVars

\* -c|--cluster) CLUSTER_TYPE="$2"; shift 2     ($2 unbound under set -u: exit 1)
ParseCluster ==
    /\ pc = "parse" /\ args # <<>> /\ IsCluster(Head(args))
    /\ IF Len(args) < 2
       THEN /\ Exit(1, <<Line("BASH", "$2: unbound variable", "")>>)
            /\ UNCHANGED <<args, config, idx>>
       ELSE /\ CLUSTER_TYPE' = args[2]
            /\ args' = Drop(args, 2)
            /\ UNCHANGED <<NAMESPACE, CLEANUP_BEFORE, CLEANUP_ONLY, NO_BUILD, NO_LOAD,
                           pc, idx, out, exitCode>>
    /\ UNCHANGED <<argv, env, calls>>
    /\ UNCHANGED apiVars

\* -n|--namespace) NAMESPACE="$2"; shift 2
ParseNamespace ==
    /\ pc = "parse" /\ args # <<>> /\ IsNamespace(Head(args))
    /\ IF Len(args) < 2
       THEN /\ Exit(1, <<Line("BASH", "$2: unbound variable", "")>>)
            /\ UNCHANGED <<args, config, idx>>
       ELSE /\ NAMESPACE' = args[2]
            /\ args' = Drop(args, 2)
            /\ UNCHANGED <<CLUSTER_TYPE, CLEANUP_BEFORE, CLEANUP_ONLY, NO_BUILD, NO_LOAD,
                           pc, idx, out, exitCode>>
    /\ UNCHANGED <<argv, env, calls>>
    /\ UNCHANGED apiVars

\* --cleanup) CLEANUP_BEFORE=true; shift
ParseCleanup ==
    /\ pc = "parse" /\ args # <<>> /\ Head(args) = "--cleanup"
    /\ CLEANUP_BEFORE' = TRUE
    /\ args' = Drop(args, 1)
    /\ UNCHANGED <<argv, CLUSTER_TYPE, NAMESPACE, CLEANUP_ONLY, NO_BUILD, NO_LOAD,
                   pc, idx, env, calls, out, exitCode>>
    /\ UNCHANGED apiVars

\* --cleanup-only) CLEANUP_ONLY=true; shift
ParseCleanupOnly ==
    /\ pc = "parse" /\ args # <<>> /\ Head(args) = "--cleanup-only"
    /\ CLEANUP_ONLY' = TRUE
    /\ args' = Drop(args, 1)
    /\ UNCHANGED <<argv, CLUSTER_TYPE, NAMESPACE, CLEANUP_BEFORE, NO_BUILD, NO_LOAD,
                   pc, idx, env, calls, out, exitCode>>
    /\ UNCHANGED apiVars

\* --no-build) NO_BUILD=true; shift
ParseNoBuild ==
    /\ pc = "parse" /\ args # <<>> /\ Head(args) = "--no-build"
    /\ NO_BUILD' = TRUE
    /\ args' = Drop(args, 1)
    /\ UNCHANGED <<argv, CLUSTER_TYPE, NAMESPACE, CLEANUP_BEFORE, CLEANUP_ONLY, NO_LOAD,
                   pc, idx, env, calls, out, exitCode>>
    /\ UNCHANGED apiVars

\* --no-load) NO_LOAD=true; shift
ParseNoLoad ==
    /\ pc = "parse" /\ args # <<>> /\ Head(args) = "--no-load"
    /\ NO_LOAD' = TRUE
    /\ args' = Drop(args, 1)
    /\ UNCHANGED <<argv, CLUSTER_TYPE, NAMESPACE, CLEANUP_BEFORE, CLEANUP_ONLY, NO_BUILD,
                   pc, idx, env, calls, out, exitCode>>
    /\ UNCHANGED apiVars

IsOption(t) ==
    \/ IsHelp(t) \/ IsCluster(t) \/ IsNamespace(t)
    \/ t \in {"--cleanup", "--cleanup-only", "--no-build", "--no-load"}

\* Mutant of ParseUnknown: the unknown word is reported and skipped (shift,
\* no exit).
ParseUnknownShifts ==
    /\ pc = "parse" /\ args # <<>> /\ ~IsOption(Head(args))
    /\ args' = Drop(args, 1)
    /\ out' = Append(out, log_error("Unknown option:", Head(args)))
    /\ UNCHANGED <<argv, config, pc, idx, env, calls, exitCode>>
    /\ UNCHANGED apiVars

\* *) log_error "Unknown option: $1"; show_help; exit 1
ParseUnknown ==
    /\ pc = "parse" /\ args # <<>> /\ ~IsOption(Head(args))
    /\ Exit(1, <<log_error("Unknown option:", Head(args)), show_help>>)
    /\ UNCHANGED <<argv, args, config, idx, env, calls>>
    /\ UNCHANGED apiVars

\* The loop ends ($# = 0); main starts and calls check_prerequisites.
MainStart ==
    /\ pc = "parse" /\ args = <<>>
    /\ Goto("check_docker", 0,
            <<log_info("Starting deployment to cluster", CLUSTER_TYPE),
              log_info("Checking prerequisites...", "")>>)
    /\ UNCHANGED <<argv, args, config, env, calls>>
    /\ UNCHANGED apiVars

----------------------------------------------------------------------------
\* main: the tests of lines 249-264 that choose the phase to run next.

\* Mutant of MainAfterBuild: apply_manifests is left out.
MainSkipsApply == IF NO_LOAD # TRUE THEN "load" ELSE "rollout"

\* if [[ "$NO_LOAD" != true ]]; then load_images; fi; apply_manifests
MainAfterBuild == IF NO_LOAD # TRUE THEN "load" ELSE "apply"

\* Mutant of MainAfterCleanupOnly: NO_BUILD is not consulted.
MainAlwaysBuilds == "build"

\* if [[ "$NO_BUILD" != true ]]; then build_images; fi
MainAfterCleanupOnly == IF NO_BUILD # TRUE THEN "build" ELSE MainAfterBuild

\* Mutant of MainAfterCleanup: CLEANUP_ONLY does not end the run.
MainIgnoresCleanupOnly == MainAfterCleanupOnly

\* if [[ "$CLEANUP_ONLY" == true ]]; then log_success ...; exit 0; fi
MainAfterCleanup == IF CLEANUP_ONLY = TRUE THEN "cleanup_only" ELSE MainAfterCleanupOnly

\* if [[ "$CLEANUP_BEFORE" == true || "$CLEANUP_ONLY" == true ]]; then cleanup; fi
MainAfterPrerequisites ==
    IF CLEANUP_BEFORE = TRUE \/ CLEANUP_ONLY = TRUE THEN "cleanup" ELSE MainAfterCleanup

\* The line a function logs when it is entered.
Header(p) ==
    CASE p = "cleanup" -> <<log_info("Cleaning up...", "")>>
      [] p = "build"   -> <<log_info("Building Docker images...", "")>>
      [] p = "load"    -> <<log_info("Loading images into cluster...", "")>>
      [] p = "apply"   -> <<log_info("Applying Kubernetes manifests...", "")>>
      [] p = "rollout" -> <<log_info("Waiting for deployments to roll out...", "")>>
      [] p = "report"  -> <<log_info("Deployment completed! Access information:", "")>>
      [] OTHER         -> <<>>

Enter(p, lines) == Goto(p, 1, lines \o Header(p))

Invoke(cmd, arg, ns, rc) == calls' = Append(calls, Call(cmd, arg, ns, rc))

----------------------------------------------------------------------------
\* check_prerequisites

Probe(tool, present) ==
    installed' = [installed EXCEPT ![tool] = IF present THEN "yes" ELSE "no"]

PrerequisitesPassed(lines) ==
    Enter(MainAfterPrerequisites, lines \o <<log_success("Prerequisites check passed", "")>>)

\* if ! command -v docker; then log_error; exit 1; fi
CheckDocker ==
    /\ pc = "check_docker"
    /\ \E present \in BOOLEAN :
        /\ Probe("docker", present)
        /\ IF present
           THEN Goto("check_kubectl", 0, <<>>)
           ELSE Exit(1, <<log_error("is not installed", "Docker")>>) /\ idx' = idx
    /\ UNCHANGED <<argv, args, config, nsExisted, deleteFault, calls>>
    /\ UNCHANGED apiVars

\* Mutant of CheckKubectl: the error is logged and the script goes on.
CheckKubectlGoesOn ==
    /\ pc = "check_kubectl"
    /\ \E present \in BOOLEAN :
        /\ Probe("kubectl", present)
        /\ Goto("check_cluster", 0,
                IF present THEN <<>> ELSE <<log_error("is not installed", "kubectl")>>)
    /\ UNCHANGED <<argv, args, config, nsExisted, deleteFault, calls>>
    /\ UNCHANGED apiVars

\* if ! command -v kubectl; then log_error; exit 1; fi
CheckKubectl ==
    /\ pc = "check_kubectl"
    /\ \E present \in BOOLEAN :
        /\ Probe("kubectl", present)
        /\ IF present
           THEN Goto("check_cluster", 0, <<>>)
           ELSE Exit(1, <<log_error("is not installed", "kubectl")>>) /\ idx' = idx
    /\ UNCHANGED <<argv, args, config, nsExisted, deleteFault, calls>>
    /\ UNCHANGED apiVars

\* if minikube: command -v minikube ... elif kind: command -v kind ... fi
CheckClusterTool ==
    /\ pc = "check_cluster"
    /\ IF CLUSTER_TYPE = "minikube"
       THEN \E present \in BOOLEAN :
              /\ Probe("minikube", present)
              /\ IF present
                 THEN Goto("minikube_status", 0, <<>>)
                 ELSE Exit(1, <<log_error("is not installed", "minikube")>>) /\ idx' = idx
       ELSE IF CLUSTER_TYPE = "kind"
       THEN \E present \in BOOLEAN :
              /\ Probe("kind", present)
              /\ IF present
                 THEN PrerequisitesPassed(<<>>)
                 ELSE Exit(1, <<log_error("is not installed", "kind")>>) /\ idx' = idx
       ELSE /\ PrerequisitesPassed(<<>>)
            /\ UNCHANGED installed
    /\ UNCHANGED <<argv, args, config, nsExisted, deleteFault, calls>>
    /\ UNCHANGED apiVars

\* if ! minikube status; then log_warning ...; (minikube start) fi
\* Mutant of MinikubeStatus: minikube is started whatever the check says.
MinikubeStatusAlwaysStarts ==
    /\ pc = "minikube_status"
    /\ \E rc \in RetCodes :
        /\ Invoke("minikube status", "", NoNs, rc)
        /\ Goto("minikube_start", 0,
                <<log_warning("minikube is not running, starting it...", "")>>)
    /\ UNCHANGED <<argv, args, config, env>>
    /\ UNCHANGED apiVars

MinikubeStatus ==
    /\ pc = "minikube_status"
    /\ \E rc \in RetCodes :
        /\ Invoke("minikube status", "", NoNs, rc)
        /\ IF rc = 0
           THEN PrerequisitesPassed(<<>>)
           ELSE Goto("minikube_start", 0,
                     <<log_warning("minikube is not running, starting it...", "")>>)
    /\ UNCHANGED <<argv, args, config, env>>
    /\ UNCHANGED apiVars

\* minikube start          (a failure ends the script: set -e)
MinikubeStart ==
    /\ pc = "minikube_start"
    /\ \E rc \in RetCodes :
        /\ Invoke("minikube start", "", NoNs, rc)
        /\ IF rc = 0
           THEN PrerequisitesPassed(<<>>)
           ELSE Exit(rc, <<>>) /\ idx' = idx
    /\ UNCHANGED <<argv, args, config, env>>
    /\ UNCHANGED apiVars

----------------------------------------------------------------------------
\* cleanup

\* Exit status of `kubectl delete namespace`: err is the status of a failure
\* unrelated to the namespace's existence (0: none).
DeleteNamespaceStatus(exists, ignoreNotFound, err) ==
    IF err # 0 THEN err
    ELSE IF ~exists /\ ~ignoreNotFound THEN 1
    ELSE 0

\* Mutant of CleanupStatus: the deletion without --ignore-not-found.
CleanupStatusStrict(exists, err) == DeleteNamespaceStatus(exists, FALSE, err)

\* kubectl delete namespace "$NAMESPACE" --ignore-not-found=true
CleanupStatus(exists, err) == DeleteNamespaceStatus(exists, TRUE, err)

\* Mutant of Cleanup: the deletion's status is ignored (`|| true`).
CleanupBestEffort ==
    /\ pc = "cleanup"
    /\ \E exists \in BOOLEAN, err \in RetCodes :
        LET rc == CleanupStatus(exists, err) IN
        /\ nsExisted' = IF exists THEN "yes" ELSE "no"
        /\ deleteFault' = err
        /\ Invoke("kubectl delete namespace", NAMESPACE, NoNs, rc)
        /\ Enter(MainAfterCleanup, <<log_success("Cleanup completed", "")>>)
    /\ UNCHANGED <<argv, args, config, installed>>
    /\ UNCHANGED apiVars

Cleanup ==
    /\ pc = "cleanup"
    /\ \E exists \in BOOLEAN, err \in RetCodes :
        LET rc == CleanupStatus(exists, err) IN
        /\ nsExisted' = IF exists THEN "yes" ELSE "no"
        /\ deleteFault' = err
        /\ Invoke("kubectl delete namespace", NAMESPACE, NoNs, rc)
        /\ IF rc = 0
           THEN Enter(MainAfterCleanup, <<log_success("Cleanup completed", "")>>)
           ELSE Exit(rc, <<>>) /\ idx' = idx
    /\ UNCHANGED <<argv, args, config, installed>>
    /\ UNCHANGED apiVars

\* log_success "Cleanup completed. Exiting."; exit 0
CleanupOnlyExit ==
    /\ pc = "cleanup_only"
    /\ Exit(0, <<log_success("Cleanup completed. Exiting.", "")>>)
    /\ UNCHANGED <<argv, args, config, idx, env, calls>>
    /\ UNCHANGED apiVars

----------------------------------------------------------------------------
\* build_images, load_images

BuildImage ==
    /\ pc = "build" /\ idx \in 1..Len(services)
    /\ \E rc \in RetCodes :
        LET service == services[idx] IN
        /\ Invoke("docker build", service, NoNs, rc)
        /\ IF rc # 0
           THEN Exit(1, <<log_info("Building", service),
                          log_error("Failed to build", service)>>) /\ idx' = idx
           ELSE IF idx < Len(services)
           THEN Goto("build", idx + 1,
                     <<log_info("Building", service), log_success("Built", service)>>)
           ELSE Enter(MainAfterBuild,
                      <<log_info("Building", service), log_success("Built", service)>>)
    /\ UNCHANGED <<argv, args, config, env>>
    /\ UNCHANGED apiVars

\* The command load_images runs for a cluster type; "" when it runs none.
LoadCommand(cluster) ==
    IF cluster = "minikube" THEN "minikube image load"
    ELSE IF cluster = "kind" THEN "kind load docker-image"
    ELSE ""

LoadImage ==
    /\ pc = "load" /\ idx \in 1..Len(services)
    /\ LET service == services[idx]
           cmd == LoadCommand(CLUSTER_TYPE)
           after(lines) == IF idx < Len(services)
                           THEN Goto("load", idx + 1, lines)
                           ELSE Enter("apply", lines)
       IN  IF cmd # ""
           THEN \E rc \in RetCodes :
                 /\ Invoke(cmd, service, NoNs, rc)
                 /\ IF rc # 0
                    THEN Exit(1, <<log_info("Loading", service),
                                   log_error("Failed to load", service)>>) /\ idx' = idx
                    ELSE after(<<log_info("Loading", service), log_success("Loaded", service)>>)
           ELSE /\ after(<<log_info("Loading", service)>>)
                /\ UNCHANGED calls
    /\ UNCHANGED <<argv, args, config, env>>
    /\ UNCHANGED apiVars

----------------------------------------------------------------------------
\* apply_manifests

\* Mutant of ApplyManifest: a failed apply is logged and the loop goes on.
ApplyManifestGoesOn ==
    /\ pc = "apply" /\ idx \in 1..Len(manifests)
    /\ LET manifest == manifests[idx] IN
       \E isFile \in BOOLEAN :
         IF isFile
         THEN \E rc \in RetCodes :
               /\ Invoke("kubectl apply", manifest, NoNs, rc)
               /\ IF idx < Len(manifests)
                  THEN Goto("apply", idx + 1, <<log_info("Applying", manifest)>>)
                  ELSE Enter("rollout", <<log_info("Applying", manifest)>>)
         ELSE /\ Exit(1, <<log_error("Manifest file not found", manifest)>>)
              /\ UNCHANGED <<idx, calls>>
    /\ UNCHANGED <<argv, args, config, env>>
    /\ UNCHANGED apiVars

ApplyManifest ==
    /\ pc = "apply" /\ idx \in 1..Len(manifests)
    /\ LET manifest == manifests[idx] IN
       \E isFile \in BOOLEAN :
         IF isFile
         THEN \E rc \in RetCodes :
               /\ Invoke("kubectl apply", manifest, NoNs, rc)
               /\ IF rc # 0
                  THEN Exit(1, <<log_info("Applying", manifest),
                                 log_error("Failed to apply", manifest)>>) /\ idx' = idx
                  ELSE IF idx < Len(manifests)
                  THEN Goto("apply", idx + 1,
                            <<log_info("Applying", manifest), log_success("Applied", manifest)>>)
                  ELSE Enter("rollout",
                             <<log_info("Applying", manifest), log_success("Applied", manifest)>>)
         ELSE /\ Exit(1, <<log_error("Manifest file not found", manifest)>>)
              /\ UNCHANGED <<idx, calls>>
    /\ UNCHANGED <<argv, args, config, env>>
    /\ UNCHANGED apiVars

----------------------------------------------------------------------------
\* wait_for_rollouts

RolloutStatus ==
    /\ pc = "rollout" /\ idx \in 1..Len(deployments)
    /\ \E rc \in RetCodes :
        LET deployment == deployments[idx] IN
        /\ Invoke("kubectl rollout status", deployment, NAMESPACE, rc)
        /\ IF rc # 0
           THEN Goto("rollback", idx,
                     <<log_info("Waiting for rollout", deployment),
                       log_error("rollout failed", deployment),
                       log_warning("Attempting rollback for", deployment)>>)
           ELSE IF idx < Len(deployments)
           THEN Goto("rollout", idx + 1,
                     <<log_info("Waiting for rollout", deployment),
                       log_success("rolled out successfully", deployment)>>)
           ELSE Enter("report",
                      <<log_info("Waiting for rollout", deployment),
                        log_success("rolled out successfully", deployment)>>)
    /\ UNCHANGED <<argv, args, config, env>>
    /\ UNCHANGED apiVars

\* Mutant of RolloutUndo: after the rollback the loop goes on with the next
\* deployment (no exit 1).
RolloutUndoGoesOn ==
    /\ pc = "rollback" /\ idx \in 1..Len(deployments)
    /\ \E rc \in RetCodes :
        /\ Invoke("kubectl rollout undo", deployments[idx], NAMESPACE, rc)
        /\ IF idx < Len(deployments)
           THEN Goto("rollout", idx + 1, <<>>)
           ELSE Enter("report", <<>>)
    /\ UNCHANGED <<argv, args, config, env>>
    /\ UNCHANGED apiVars

\* kubectl -n "$NAMESPACE" rollout undo "deploy/$deployment" || true; exit 1
RolloutUndo ==
    /\ pc = "rollback" /\ idx \in 1..Len(deployments)
    /\ \E rc \in RetCodes :
        /\ Invoke("kubectl rollout undo", deployments[idx], NAMESPACE, rc)
        /\ Exit(1, <<>>)
    /\ UNCHANGED <<argv, args, config, idx, env>>
    /\ UNCHANGED apiVars

----------------------------------------------------------------------------
\* show_access_info, the last line of main, and the rest of the script file

AccessLines ==
    IF CLUSTER_TYPE = "minikube" \/ CLUSTER_TYPE = "kind"
    THEN <<Line("ECHO", "Frontend:", CLUSTER_TYPE), Line("ECHO", "API Health:", NAMESPACE),
           Line("ECHO", "Check pods:", NAMESPACE), Line("ECHO", "View logs:", NAMESPACE)>>
    ELSE <<Line("ECHO", "Check pods:", NAMESPACE), Line("ECHO", "View logs:", NAMESPACE)>>

\* show_access_info; log_success "Deployment completed successfully!"
ShowAccessInfo ==
    /\ pc = "report"
    /\ IF CLUSTER_TYPE = "minikube"
       THEN \E rc \in RetCodes, ip \in RetCodes :
              calls' = calls
                 \o <<Call("minikube service --url", "frontend-service", NAMESPACE, rc)>>
                 \o (IF rc # 0 THEN <<Call("minikube ip", "", NoNs, ip)>> ELSE <<>>)
       ELSE UNCHANGED calls
    /\ Goto("tail", 1,
            AccessLines \o <<log_success("Deployment completed successfully!", "")>>)
    /\ UNCHANGED <<argv, args, config, env>>
    /\ UNCHANGED apiVars

\* Lines 275-281: main has returned and bash goes on reading the file.  Each
\* of lines 275-277 is a simple command: not found, exit 127 (set -e); found
\* and failing, exit with its status.  Line 278 is a syntax error: exit 2.
ScriptTail ==
    /\ pc = "tail"
    /\ IF idx \in 1..Len(tailCommands)
       THEN \E found \in BOOLEAN, rc \in RetCodes :
              IF ~found
              THEN /\ Exit(127, <<Line("BASH", "command not found", tailCommands[idx])>>)
                   /\ UNCHANGED <<idx, calls>>
              ELSE /\ Invoke(tailCommands[idx], "", NoNs, rc)
                   /\ IF rc # 0
                      THEN Exit(rc, <<>>) /\ idx' = idx
                      ELSE Goto("tail", idx + 1, <<>>)
       ELSE /\ Exit(2, <<Line("BASH", "syntax error near unexpected token", "(")>>)
            /\ UNCHANGED <<idx, calls>>
    /\ UNCHANGED <<argv, args, config, env>>
    /\ UNCHANGED apiVars

----------------------------------------------------------------------------
Next ==
    \/ ParseHelp \/ ParseCluster \/ ParseNamespace \/ ParseCleanup
    \/ ParseCleanupOnly \/ ParseNoBuild \/ ParseNoLoad \/ ParseUnknown
    \/ MainStart
    \/ CheckDocker \/ CheckKubectl \/ CheckClusterTool \/ MinikubeStatus \/ MinikubeStart
    \/ Cleanup \/ CleanupOnlyExit
    \/ BuildImage \/ LoadImage \/ ApplyManifest
    \/ RolloutStatus \/ RolloutUndo
    \/ ShowAccessInfo \/ ScriptTail

Spec == Init /\ [][Next]_allVars

TypeOK ==
    /\ Len(argv) <= MaxArgs /\ \A i \in 1..Len(argv) : argv[i] \in Tokens
    /\ CLEANUP_BEFORE \in BOOLEAN /\ CLEANUP_ONLY \in BOOLEAN
    /\ NO_BUILD \in BOOLEAN /\ NO_LOAD \in BOOLEAN
    /\ exitCode \in {NoStatus, 0, 1, 2, 127}
    /\ (pc = "exited") <=> (exitCode # NoStatus)
----------------------------------------------------------------------------
\* The API service (server.js): route handlers, pool, shutdown.

Alive == apiExit = NoStatus

\* process.exit(code)
ProcessExit(code, path) ==
    /\ apiExit' = code
    /\ exitPath' = path

StaysAlive == UNCHANGED <<apiExit, exitPath>>

\* Mutant of Drained: 'close' is emitted without waiting for the connections.
DrainedAtOnce(cs) == TRUE

\* No connection is open: the server, once closed, emits 'close'.
Drained(cs) == \A c \in ConnIds : ~cs[c].sock

Response(route, code, body) == [route |-> route, code |-> code, body |-> body]

\* Messages of the errors pool.query rejects with.
PoolEndedMessage == "Cannot use a pool after calling end on the pool"
DbErrors == {"connect ECONNREFUSED", ""}

\* res.status(code).json(body): one more response.
Respond(r) ==
    /\ responded' = responded + 1
    /\ responses' = responses \cup {r}

\* A client connects; the server accepts while it listens.
Connect(c) ==
    /\ Alive /\ listening /\ ~conns[c].sock /\ conns[c].handler = "none"
    /\ conns' = [conns EXCEPT ![c] = [sock |-> TRUE, handler |-> "none", poolWas |-> "n/a"]]
    /\ UNCHANGED <<listening, closeListeners, closePending, pool, dbUp, arrived,
                   responded, responses, queries, timers, elapsed, signals, apiExit, exitPath>>
    /\ UNCHANGED vars

\* A connection ends: an idle one is closed by either side, one whose
\* request is in flight is dropped by the client (the handler goes on).  A
\* server that no longer listens and is drained schedules 'close'.
Disconnect(c) ==
    /\ Alive /\ conns[c].sock
    /\ conns' = [conns EXCEPT ![c].sock = FALSE]
    /\ closePending' = (closePending \/ (~listening /\ Drained(conns')))
    /\ UNCHANGED <<listening, closeListeners, pool, dbUp, arrived,
                   responded, responses, queries, timers, elapsed, signals, apiExit, exitPath>>
    /\ UNCHANGED vars

CanRequest(c) ==
    /\ Alive /\ conns[c].sock /\ conns[c].handler = "none"
    /\ arrived < MaxRequests

\* app.get('/live', ...): res.status(200).json({ status: 'alive' })
GetLive(c) ==
    /\ CanRequest(c)
    /\ arrived' = arrived + 1
    /\ Respond(Response("/live", 200, [status |-> "alive"]))
    /\ UNCHANGED <<listening, closeListeners, closePending, pool, conns, dbUp,
                   queries, timers, elapsed, signals, apiExit, exitPath>>
    /\ UNCHANGED vars

\* pool.query(...): the call and the state of the pool it meets.
PoolQuery(c, route) ==
    /\ queries' = queries \cup {[route |-> route, pool |-> pool]}
    /\ conns' = [conns EXCEPT ![c].handler = route, ![c].poolWas = pool]

\* app.get('/health', ...) up to `await pool.query('SELECT 1')`
GetHealth(c) ==
    /\ CanRequest(c)
    /\ arrived' = arrived + 1
    /\ PoolQuery(c, "/health")
    /\ UNCHANGED <<listening, closeListeners, closePending, pool, dbUp,
                   responded, responses, timers, elapsed, signals, apiExit, exitPath>>
    /\ UNCHANGED vars

\* app.get('/api/time', ...) up to `await pool.query('SELECT NOW() as now')`
GetApiTime(c) ==
    /\ CanRequest(c)
    /\ arrived' = arrived + 1
    /\ PoolQuery(c, "/api/time")
    /\ UNCHANGED <<listening, closeListeners, closePending, pool, dbUp,
                   responded, responses, timers, elapsed, signals, apiExit, exitPath>>
    /\ UNCHANGED vars

\* How the query of connection c may settle: "" stands for a result, any
\* other value is the message of the error it rejects with.  A pool that
\* was ending rejects; otherwise the database decides.
QueryOutcomes(c) ==
    IF conns[c].poolWas # "open" THEN {[ok |-> FALSE, message |-> PoolEndedMessage]}
    ELSE IF dbUp THEN {[ok |-> TRUE, message |-> ""]}
    ELSE {[ok |-> FALSE, message |-> m] : m \in DbErrors}

\* Mutant of HealthResponse: the two branches of the try/catch swapped.
HealthResponseSwapped(q) ==
    IF ~q.ok
    THEN Response("/health", 200, [status |-> "ok"])
    ELSE Response("/health", 500, [status |-> "error", error |-> q.message])

\* Mutant of ApiTimeResponse: the catch branch answers without a status.
ApiTimeResponseBare(q) ==
    IF q.ok
    THEN Response("/api/time", 200, [now |-> "NOW()"])
    ELSE Response("/api/time", 503, [error |-> "database unavailable"])

\* /health after the await: 200 {status:'ok'}, or 500 {status:'error', error}
HealthResponse(q) ==
    IF q.ok
    THEN Response("/health", 200, [status |-> "ok"])
    ELSE Response("/health", 500, [status |-> "error", error |-> q.message])

\* /api/time after the await: 200 {now}, or 503 {status:'error', error}
ApiTimeResponse(q) ==
    IF q.ok
    THEN Response("/api/time", 200, [now |-> "NOW()"])
    ELSE Response("/api/time", 503,
                  [status |-> "error",
                   error |-> IF q.message # "" THEN q.message ELSE "database unavailable"])

\* The query of a /health request settles and the handler responds.
HealthQuerySettles(c) ==
    /\ Alive /\ conns[c].handler = "/health"
    /\ \E q \in QueryOutcomes(c) :
         Respond(HealthResponse(q))
    /\ conns' = [conns EXCEPT ![c].handler = "none", ![c].poolWas = "n/a"]
    /\ UNCHANGED <<listening, closeListeners, closePending, pool, dbUp, arrived,
                   queries, timers, elapsed, signals, apiExit, exitPath>>
    /\ UNCHANGED vars

\* The query of an /api/time request settles and the handler responds.
ApiTimeQuerySettles(c) ==
    /\ Alive /\ conns[c].handler = "/api/time"
    /\ \E q \in QueryOutcomes(c) :
         Respond(ApiTimeResponse(q))
    /\ conns' = [conns EXCEPT ![c].handler = "none", ![c].poolWas = "n/a"]
    /\ UNCHANGED <<listening, closeListeners, closePending, pool, dbUp, arrived,
                   queries, timers, elapsed, signals, apiExit, exitPath>>
    /\ UNCHANGED vars

\* The database goes down or comes back.
DbChanges ==
    /\ Alive
    /\ dbUp' = ~dbUp
    /\ UNCHANGED <<listening, closeListeners, closePending, pool, conns, arrived,
                   responded, responses, queries, timers, elapsed, signals, apiExit, exitPath>>
    /\ UNCHANGED vars

\* Mutant of ShutdownTimers: a repeated signal re-arms the one timer.
ShutdownTimersRearmed == <<GraceSeconds>>

\* The timers pending after shutdown() ran setTimeout(..., 5000).unref().
ShutdownTimers == Append(timers, GraceSeconds)

\* SIGTERM or SIGINT: shutdown().  server.close(cb) closes the listening
\* handle, registers cb for 'close' and schedules 'close' if the server is
\* drained; then the forced-exit timer is set.
Shutdown ==
    /\ Alive /\ signals < MaxSignals
    /\ signals' = signals + 1
    /\ listening' = FALSE
    /\ closeListeners' = closeListeners + 1
    /\ closePending' = (closePending \/ Drained(conns))
    /\ timers' = ShutdownTimers
    /\ UNCHANGED <<pool, conns, dbUp, arrived, responded, responses, queries, elapsed,
                   apiExit, exitPath>>
    /\ UNCHANGED vars

\* 'close' is emitted: every registered callback runs pool.end().finally(exit).
\* The first pool.end() starts ending the pool; a pool.end() on a pool
\* that is ending rejects at once, and its finally exits the process.
EmitClose ==
    /\ Alive /\ closePending
    /\ closePending' = FALSE
    /\ closeListeners' = 0
    /\ pool' = IF closeListeners > 0 /\ pool = "open" THEN "ending" ELSE pool
    /\ IF closeListeners > 1 \/ (closeListeners > 0 /\ pool # "open")
       THEN ProcessExit(0, "graceful")
       ELSE StaysAlive
    /\ UNCHANGED <<listening, conns, dbUp, arrived, responded, responses, queries, timers,
                   elapsed, signals>>
    /\ UNCHANGED vars

\* pool.end() settles, once no query holds a client: finally exits.
PoolEndSettles ==
    /\ Alive /\ pool = "ending"
    /\ \A c \in ConnIds : conns[c].handler = "none" \/ conns[c].poolWas # "open"
    /\ pool' = "ended"
    /\ ProcessExit(0, "graceful")
    /\ UNCHANGED <<listening, closeListeners, closePending, conns, dbUp, arrived,
                   responded, responses, queries, timers, elapsed, signals>>
    /\ UNCHANGED vars

\* A second passes.  A timer that is due fires before time goes on.
Tick ==
    /\ Alive /\ signals > 0
    /\ \A i \in 1..Len(timers) : timers[i] > 0
    /\ elapsed <= GraceSeconds
    /\ timers' = [i \in 1..Len(timers) |-> timers[i] - 1]
    /\ elapsed' = elapsed + 1
    /\ UNCHANGED <<listening, closeListeners, closePending, pool, conns, dbUp, arrived,
                   responded, responses, queries, signals, apiExit, exitPath>>
    /\ UNCHANGED vars

\* setTimeout(() => process.exit(0), 5000): the forced exit.
TimerFires ==
    /\ Alive
    /\ \E i \in 1..Len(timers) : timers[i] = 0
    /\ ProcessExit(0, "forced")
    /\ UNCHANGED <<listening, closeListeners, closePending, pool, conns, dbUp, arrived,
                   responded, responses, queries, timers, elapsed, signals>>
    /\ UNCHANGED vars

\* Nothing keeps the event loop alive (the timers are unref'ed): the
\* server is closed and drained, no handler is pending, pool.end() was
\* called and has not settled.  Node exits with status 0.
EventLoopEmpties ==
    /\ Alive /\ ~listening /\ Drained(conns) /\ ~closePending
    /\ \A c \in ConnIds : conns[c].handler = "none"
    /\ pool = "ending"
    /\ ProcessExit(0, "natural")
    /\ UNCHANGED <<listening, closeListeners, closePending, pool, conns, dbUp, arrived,
                   responded, responses, queries, timers, elapsed, signals>>
    /\ UNCHANGED vars

\* The script's state during a life of the API service: no run.
DeployIdle ==
    /\ argv = <<>> /\ args = <<>>
    /\ CLUSTER_TYPE = "minikube" /\ NAMESPACE = "app"
    /\ CLEANUP_BEFORE = FALSE /\ CLEANUP_ONLY = FALSE
    /\ NO_BUILD = FALSE /\ NO_LOAD = FALSE
    /\ pc = "parse" /\ idx = 0
    /\ installed = [t \in Tools |-> "unknown"]
    /\ nsExisted = "unknown" /\ deleteFault = NoStatus
    /\ calls = <<>> /\ out = <<>> /\ exitCode = NoStatus

InitApi == ApiInit /\ DeployIdle

NextApi ==
    \/ \E c \in ConnIds : Connect(c)
    \/ \E c \in ConnIds : Disconnect(c)
    \/ \E c \in ConnIds : GetLive(c)
    \/ \E c \in ConnIds : GetHealth(c)
    \/ \E c \in ConnIds : GetApiTime(c)
    \/ \E c \in ConnIds : HealthQuerySettles(c)
    \/ \E c \in ConnIds : ApiTimeQuerySettles(c)
    \/ DbChanges
    \/ Shutdown
    \/ EmitClose
    \/ PoolEndSettles
    \/ Tick
    \/ TimerFires
    \/ EventLoopEmpties

\* Time passes, a due timer fires and a scheduled 'close' is emitted: the
\* event loop is never blocked.
SpecApi ==
    /\ InitApi /\ [][NextApi]_allVars
    /\ WF_allVars(Tick)
    /\ WF_allVars(TimerFires)
    /\ WF_allVars(EmitClose)

ApiTypeOK ==
    /\ pool \in {"open", "ending", "ended"}
    /\ arrived \in 0..MaxRequests
    /\ signals \in 0..MaxSignals
    /\ apiExit \in {NoStatus, 0}
    /\ responded <= arrived

----------------------------------------------------------------------------
\* What the claims speak about.

Supported == {"minikube", "kind"}

BuildCmds == {"docker build"}
LoadCmds == {"minikube image load", "kind load docker-image"}
ApplyCmds == {"kubectl apply"}
RolloutCmds == {"kubectl rollout status"}
RollbackCmds == {"kubectl rollout undo"}
CleanupCmds == {"kubectl delete namespace"}
ValidationCmds == {"minikube status", "minikube start"}
DeployCmds == BuildCmds \cup LoadCmds \cup ApplyCmds \cup RolloutCmds \cup RollbackCmds

Invoked(cmds) == \E i \in 1..Len(calls) : calls[i].cmd \in cmds

Succeeded(cmd, arg) ==
    \E i \in 1..Len(calls) : calls[i].cmd = cmd /\ calls[i].arg = arg /\ calls[i].rc = 0

Printed(line) == \E i \in 1..Len(out) : out[i] = line

NothingProbed == \A t \in Tools : installed[t] = "unknown"

\* The positions of a command line at which an option is expected: the
\* first, and the one after each option and after each value of -c / -n.
RECURSIVE OptionPositions(_, _)
OptionPositions(a, i) ==
    IF i > Len(a) THEN {}
    ELSE {i} \cup OptionPositions(a, IF IsCluster(a[i]) \/ IsNamespace(a[i])
                                     THEN i + 2 ELSE i + 1)

\* The option is given on the command line (not as the value of -c / -n).
Given(option) == \E i \in OptionPositions(argv, 1) : argv[i] = option

HelpAt == {i \in OptionPositions(argv, 1) : IsHelp(argv[i])}
UnknownAt == {i \in OptionPositions(argv, 1) : ~IsOption(argv[i])}

\* The parser stopped at a usage error or at help: nothing ran.
StoppedInParsing(code) ==
    /\ pc \in {"parse", "exited"}
    /\ calls = <<>>
    /\ NothingProbed
    /\ nsExisted = "unknown"
    /\ pc = "exited" => exitCode = code

DeploymentCompleted == log_success("Deployment completed successfully!", "")

\* C1: a deploy run in which validation, the builds and loads that ran, the
\* 11 applies and the 3 rollout waits succeeded has printed "Deployment
\* completed successfully!" and, once the process has exited, its exit
\* status is 0.
C1_SuccessfulDeployExitsZero ==
    (/\ \A i \in 1..Len(manifests) : Succeeded("kubectl apply", manifests[i])
     /\ \A i \in 1..Len(deployments) : Succeeded("kubectl rollout status", deployments[i])
     /\ pc \in {"tail", "exited"})
    => /\ Printed(DeploymentCompleted)
       /\ pc = "exited" => exitCode = 0

\* C2: once the rollout-status check of a deployment d has failed, the only
\* command that follows it is one rollback, of d in the same namespace; no
\* later deployment is checked or rolled back; and the run ends with a
\* non-zero status whatever the status of the rollback.
C2_FailedRolloutRollsBackOnceAndStops ==
    \A i \in 1..Len(calls) :
        (calls[i].cmd \in RolloutCmds /\ calls[i].rc # 0)
        => /\ pc \in {"rollback", "exited"}
           /\ pc = "rollback" => Len(calls) = i
           /\ pc = "exited" =>
                /\ Len(calls) = i + 1
                /\ calls[i + 1].cmd \in RollbackCmds
                /\ calls[i + 1].arg = calls[i].arg
                /\ calls[i + 1].ns = calls[i].ns
                /\ exitCode # 0
           /\ \A j \in 1..Len(calls) : calls[j].cmd \in RollbackCmds => j = i + 1

\* C2 witness: the check of the second deployment failed, the rollback
\* failed too, and the run has exited.
C2_Witness ==
    /\ pc = "exited"
    /\ \E i \in 1..Len(calls) :
         /\ calls[i].cmd \in RolloutCmds /\ calls[i].arg = deployments[2] /\ calls[i].rc # 0
         /\ Len(calls) = i + 1 /\ calls[i + 1].rc # 0

C4_Original_UnknownTokenAlwaysExitsOne ==
    UnknownAt # {} => StoppedInParsing(1)

\* C4 amended: with an unrecognized token on the command line no external
\* command and no prerequisite check is ever performed; the run exits 1,
\* unless -h/--help is given before the first unrecognized token, and then
\* it exits 0.
C4_UnknownTokenStopsBeforeAnyCommand ==
    UnknownAt # {} =>
        LET u == CHOOSE i \in UnknownAt : \A j \in UnknownAt : i <= j
        IN  StoppedInParsing(IF \E h \in HelpAt : h < u THEN 0 ELSE 1)

\* C4 witness: the run has exited on an unrecognized token that follows
\* recognised options.
C4_Witness ==
    /\ UnknownAt # {} /\ 1 \notin UnknownAt /\ HelpAt = {}
    /\ pc = "exited" /\ exitCode = 1

\* C5 as stated: a command line with -h or --help prints usage and exits 0,
\* whatever the other tokens, and nothing ran.
C5_Original_HelpAlwaysWins ==
    HelpAt # {} => /\ StoppedInParsing(0)
                   /\ pc = "exited" => Printed(show_help)

\* C5 amended: when -h/--help is given and no unrecognized token precedes
\* it, the run prints usage and exits 0 without any external command or
\* prerequisite check, whatever follows and whatever options precede it.
C5_HelpBeforeUnknownExitsZero ==
    (HelpAt # {} /\ \A u \in UnknownAt : \E h \in HelpAt : h < u)
    => /\ StoppedInParsing(0)
       /\ pc = "exited" => out = <<show_help>>

\* C5 witness: help was given after --cleanup-only and before an
\* unrecognized token, and the run has exited.
C5_Witness ==
    /\ Len(argv) = 3 /\ argv[1] = "--cleanup-only" /\ IsHelp(argv[2]) /\ ~IsOption(argv[3])
    /\ pc = "exited" /\ exitCode = 0

\* C6: a cluster type other than minikube and kind is a usage error: with
\* such a value (a word that is no option: an option taken as the value is
\* the matter of C10) the run never leaves parsing, performs no check and
\* invokes no command.
C6_ClusterTypeIsSupported ==
    (CLUSTER_TYPE \notin Supported /\ ~IsOption(CLUSTER_TYPE))
    => /\ pc \in {"parse", "exited"}
       /\ calls = <<>>
       /\ NothingProbed

\* The name check_prerequisites prints for a tool.
ToolName(t) == IF t = "docker" THEN "Docker" ELSE t

\* The tools a run needs: docker, kubectl and the one of the cluster type.
Required == {"docker", "kubectl"} \cup (IF CLUSTER_TYPE \in Supported THEN {CLUSTER_TYPE} ELSE {})

\* C7: when a required executable was found missing the run has exited with
\* status 1, its last line is the "... is not installed" error of that tool,
\* and no external command was ever invoked; and no phase runs and no
\* command is invoked unless every required executable was found.
C7_MissingToolStopsBeforeAnyPhase ==
    /\ \A t \in Tools :
         installed[t] = "no"
         => /\ t \in Required
            /\ pc = "exited" /\ exitCode = 1
            /\ calls = <<>>
            /\ out[Len(out)] = log_error("is not installed", ToolName(t))
    /\ (calls # <<>> \/ pc \in {"cleanup", "cleanup_only", "build", "load", "apply",
                                "rollout", "rollback", "report", "tail"})
       => \A t \in Required : installed[t] = "yes"

\* C7 witness: docker and kubectl are there, minikube is not, and the run
\* has exited.
C7_Witness ==
    /\ installed["docker"] = "yes" /\ installed["kubectl"] = "yes"
    /\ installed["minikube"] = "no"
    /\ pc = "exited"

\* The commands invoked once validation is over (validation may have run
\* minikube status and minikube start).
AfterValidation == SelectSeq(calls, LAMBDA c : c.cmd \notin ValidationCmds)

\* C8: when --no-build and --no-load are given and neither cleanup option
\* is, no build, load or namespace deletion is invoked, and the first
\* command after validation is the apply of the first manifest.
C8_NoBuildNoLoadGoesToApply ==
    (/\ Given("--no-build") /\ Given("--no-load")
     /\ ~Given("--cleanup") /\ ~Given("--cleanup-only"))
    => /\ ~Invoked(BuildCmds \cup LoadCmds \cup CleanupCmds)
       /\ pc \notin {"cleanup", "cleanup_only", "build", "load"}
       /\ AfterValidation # <<>>
            => /\ AfterValidation[1].cmd \in ApplyCmds
               /\ AfterValidation[1].arg = manifests[1]

\* C8 witness: both options were given, minikube had to be started, and
\* the second manifest has been applied.
C8_Witness ==
    /\ Given("--no-build") /\ Given("--no-load")
    /\ ~Given("--cleanup") /\ ~Given("--cleanup-only")
    /\ Invoked({"minikube start"})
    /\ Succeeded("kubectl apply", manifests[2])

\* C9: the namespace deletion ends with the status of the fault it met, if
\* any, whether the namespace existed or not: a missing namespace is no
\* error.  So after a fault-free deletion "Cleanup completed" is logged
\* and the run goes on, to exit 0 under --cleanup-only and to the deploy
\* phases otherwise.
C9_CleanupOfMissingNamespaceSucceeds ==
    nsExisted # "unknown"
    => \E i \in 1..Len(calls) :
         /\ calls[i].cmd \in CleanupCmds
         /\ calls[i].rc = deleteFault
         /\ deleteFault = 0
              => /\ Printed(log_success("Cleanup completed", ""))
                 /\ CLEANUP_ONLY => \/ pc = "cleanup_only"
                                    \/ pc = "exited" /\ exitCode = 0
                 /\ ~CLEANUP_ONLY /\ Len(calls) = i
                      => \/ pc \in {"build", "load", "apply"}
                         \/ /\ pc = "exited"
                            /\ Printed(log_error("Manifest file not found", manifests[1]))

\* C9 witness: --cleanup met no namespace and the run went on to build.
C9_Witness ==
    /\ nsExisted = "no" /\ CLEANUP_BEFORE /\ ~CLEANUP_ONLY
    /\ Succeeded("docker build", services[1])

\* C9, second witness state: --cleanup-only met no namespace and exited 0.
C9_WitnessCleanupOnly ==
    /\ nsExisted = "no" /\ CLEANUP_ONLY
    /\ pc = "exited" /\ exitCode = 0

\* C10: -c and -n never take an option as their value, and a run that
\* ended on the missing value of -c or -n has status 1 and ran nothing.
C10_ValueFlagNeedsValue ==
    /\ ~IsOption(CLUSTER_TYPE)
    /\ ~IsOption(NAMESPACE)
    /\ Printed(Line("BASH", "$2: unbound variable", "")) => StoppedInParsing(1)
----------------------------------------------------------------------------
\* Claims about the API service (checked under SpecApi).

\* C11: after a first SIGTERM or SIGINT the process is never alive later
\* than the 5-second grace period, and it does terminate, whether or not
\* the connections drain and pool.end() settles, and whatever signals
\* follow the first.
C11_ShutdownTerminatesByDeadline ==
    /\ [](Alive /\ signals > 0 => elapsed <= GraceSeconds)
    /\ (signals > 0) ~> ~Alive

\* C11 witness: two signals were received, a request was still in flight
\* when the grace period ended, and the timer ended the process.
C11_Witness ==
    /\ signals = 2 /\ elapsed = GraceSeconds
    /\ \E c \in ConnIds : conns[c].sock /\ conns[c].handler # "none"
    /\ exitPath = "forced" /\ apiExit = 0

\* The handlers whose query has not settled yet.
Pending == {c \in ConnIds : conns[c].handler # "none"}

\* The query of connection c succeeds when it settles now: the pool was
\* open when pool.query was called and the database is up.
QuerySucceeds(c) == conns[c].poolWas = "open" /\ dbUp

\* The handler of connection c responds in this step.
Settles(c, route) == conns[c].handler = route /\ conns'[c].handler = "none"

\* C12: /live answers 200 {status:'alive'} whatever the database state and
\* never calls pool.query; /health answers 200 {status:'ok'} exactly when
\* its query succeeds and otherwise 500 with status 'error' and the
\* message of the error; every /health or /api/time request whose query
\* settled got exactly one response, the others are still pending.
C12_LiveAndHealthResponses ==
    /\ [](\A q \in queries : q.route \in {"/health", "/api/time"})
    /\ [](\A r \in responses :
            /\ r.route = "/live" => r.code = 200 /\ r.body = [status |-> "alive"]
            /\ r.route = "/health" =>
                 \/ r.code = 200 /\ r.body = [status |-> "ok"]
                 \/ /\ r.code = 500
                    /\ DOMAIN r.body = {"status", "error"}
                    /\ r.body.status = "error"
                    /\ r.body.error \in DbErrors \cup {PoolEndedMessage})
    /\ [](arrived = responded + Cardinality(Pending))
    /\ [][/\ (arrived' = arrived + 1 /\ conns' = conns) =>
              /\ queries' = queries
              /\ responded' = responded + 1
              /\ Response("/live", 200, [status |-> "alive"]) \in responses'
          /\ \A c \in ConnIds :
              /\ Settles(c, "/health") =>
                   /\ responded' = responded + 1
                   /\ \E r \in responses' :
                        /\ r.route = "/health"
                        /\ r.code = (IF QuerySucceeds(c) THEN 200 ELSE 500)
              /\ Settles(c, "/api/time") => responded' = responded + 1
         ]_allVars

\* /live was answered while the database was down and a /health request
\* of the same life got its 500.
C12_Witness ==
    /\ ~dbUp /\ responded = 2 /\ Pending = {}
    /\ Response("/live", 200, [status |-> "alive"]) \in responses
    /\ \E r \in responses : r.route = "/health" /\ r.code = 500
    /\ \A q \in queries : q.route = "/health"

\* C13 as stated: every response of the three endpoints carries a status
\* field.  The 200 of /api/time is { now } and carries none.
C13_Original_EveryResponseHasStatus ==
    \A r \in responses : "status" \in DOMAIN r.body

\* C13: every response of /live and /health and every error response of
\* /api/time carries a status field; the success response of /api/time is
\* the object { now } with the database's timestamp and nothing else.
C13_StatusFieldExceptApiTimeSuccess ==
    \A r \in responses :
        IF r.route = "/api/time" /\ r.code = 200
        THEN DOMAIN r.body = {"now"}
        ELSE "status" \in DOMAIN r.body

\* Both kinds of /api/time response were produced.
C13_Witness ==
    /\ \E r \in responses : r.route = "/api/time" /\ r.code = 200
    /\ \E r \in responses : r.route = "/api/time" /\ r.code = 503

\* The commands whose failure ends the run at once.
FailFastCmds ==
    {"minikube start"} \cup CleanupCmds \cup BuildCmds \cup LoadCmds \cup ApplyCmds

\* The commands whose failure is an answer and does not end the run: the
\* liveness check of check_prerequisites and the URL lookups of
\* show_access_info.
ProbeCmds == {"minikube status", "minikube service --url", "minikube ip"}

Failed(i) == calls[i].rc # 0

\* C14 as stated: the only command issued after a failed one is the
\* rollback after a failed rollout-status check.  `minikube start` after a
\* failed `minikube status` and `minikube ip` after a failed
\* `minikube service --url` are issued after a failure as well.
C14_Original_OnlyRollbackFollowsAFailure ==
    \A i, j \in 1..Len(calls) :
        i < j /\ Failed(i) => calls[i].cmd \in RolloutCmds /\ calls[j].cmd \in RollbackCmds

\* C14: a failed minikube start, namespace deletion, build, load or apply
\* is the last command of the run and the run has exited non-zero; a failed
\* rollout-status check is followed by its one rollback only; the only
\* other failures a command follows are those of the liveness check (then
\* minikube start is next) and of the URL lookups of the report.  No command
\* is issued twice, a namespace deletion follows validation commands only,
\* and a rollback follows nothing but the failed check of its deployment.
C14_FailFastExceptProbesAndRollback ==
    /\ \A i \in 1..Len(calls) :
         Failed(i) /\ calls[i].cmd \in FailFastCmds =>
            i = Len(calls) /\ pc = "exited" /\ exitCode \in FailCodes
    /\ \A i \in 1..Len(calls) :
         i < Len(calls) /\ Failed(i) =>
            \/ /\ calls[i].cmd \in RolloutCmds
               /\ i + 1 = Len(calls) /\ calls[i + 1].cmd \in RollbackCmds
            \/ calls[i].cmd = "minikube status" /\ calls[i + 1].cmd = "minikube start"
            \/ calls[i].cmd = "minikube service --url" /\ calls[i + 1].cmd = "minikube ip"
            \/ calls[i].cmd = "minikube ip"
    /\ (pc = "exited" /\ \E i \in 1..Len(calls) : Failed(i) /\ calls[i].cmd \notin ProbeCmds)
          => exitCode \in FailCodes
    /\ Cardinality({<<calls[i].cmd, calls[i].arg>> : i \in 1..Len(calls)}) = Len(calls)
    /\ \A j \in 1..Len(calls) :
         /\ calls[j].cmd \in CleanupCmds =>
               \A i \in 1..(j - 1) : calls[i].cmd \in ValidationCmds
         /\ calls[j].cmd \in RollbackCmds =>
               /\ j > 1
               /\ calls[j - 1].cmd \in RolloutCmds /\ Failed(j - 1)
               /\ calls[j - 1].arg = calls[j].arg

\* The liveness check failed, minikube was started, two manifests were
\* applied and the apply of the third failed: the run stopped there.
C14_Witness ==
    /\ Len(calls) = 5 /\ pc = "exited" /\ exitCode = 1
    /\ calls[1].cmd = "minikube status" /\ Failed(1)
    /\ calls[2].cmd = "minikube start" /\ ~Failed(2)
    /\ calls[5].cmd = "kubectl apply" /\ calls[5].arg = manifests[3] /\ Failed(5)

\* The phase of main an external command belongs to: VALIDATE, CLEANUP,
\* BUILD, LOAD, APPLY, WAIT_ROLLOUT, REPORT; 8 for what follows main.
Phase(cmd) ==
    IF cmd \in ValidationCmds THEN 1
    ELSE IF cmd \in CleanupCmds THEN 2
    ELSE IF cmd \in BuildCmds THEN 3
    ELSE IF cmd \in LoadCmds THEN 4
    ELSE IF cmd \in ApplyCmds THEN 5
    ELSE IF cmd \in RolloutCmds \cup RollbackCmds THEN 6
    ELSE IF cmd \in {"minikube service --url", "minikube ip"} THEN 7
    ELSE 8

AllSucceeded(cmd, list) == \A k \in 1..Len(list) : Succeeded(cmd, list[k])

AccessInformation == log_info("Deployment completed! Access information:", "")

\* C15: the commands of a run come in the order of the phases VALIDATE,
\* CLEANUP, BUILD, LOAD, APPLY, WAIT_ROLLOUT, REPORT; an image load is
\* issued only after the three builds of the run succeeded, a manifest is
\* applied only after the builds and the loads of the run succeeded, a
\* rollout-status check only after the 11 manifests were applied, and the
\* access information is reported only after the three rollouts succeeded.
\* Commands run one at a time: a step adds finished commands to the end of
\* the record and changes nothing before it.
C15_PhasesInOrder ==
    /\ [](\A i \in 1..Len(calls) :
            i < Len(calls) => Phase(calls[i].cmd) <= Phase(calls[i + 1].cmd))
    /\ [](Invoked(LoadCmds \cup ApplyCmds) /\ NO_BUILD # TRUE
            => AllSucceeded("docker build", services))
    /\ [](Invoked(ApplyCmds) /\ NO_LOAD # TRUE /\ CLUSTER_TYPE \in Supported
            => AllSucceeded(LoadCommand(CLUSTER_TYPE), services))
    /\ [](Invoked(ApplyCmds)
            => \A i \in 1..Len(calls) : calls[i].cmd \in LoadCmds => ~Failed(i))
    /\ [](Invoked(RolloutCmds) => AllSucceeded("kubectl apply", manifests))
    /\ [](Printed(AccessInformation) \/ pc \in {"report", "tail"}
            => AllSucceeded("kubectl rollout status", deployments))
    /\ [][/\ Len(calls') >= Len(calls)
          /\ SubSeq(calls', 1, Len(calls)) = calls
          /\ \A i \in 1..Len(calls') : calls'[i].rc \in RetCodes]_allVars

\* A whole run: three builds, three loads, eleven applies, three rollouts
\* and the report.
C15_Witness ==
    /\ pc = "tail" /\ Printed(AccessInformation)
    /\ NO_BUILD # TRUE /\ NO_LOAD # TRUE
    /\ AllSucceeded("docker build", services)
    /\ AllSucceeded(LoadCommand(CLUSTER_TYPE), services)
    /\ AllSucceeded("kubectl apply", manifests)
    /\ AllSucceeded("kubectl rollout status", deployments)

\* The order C16 names: namespace, quotas, secrets, config, database,
\* the three deployments, autoscaling, network policy, ingress.
FixedOrder ==
    <<"k8s/namespace.yaml", "k8s/resource-quota.yaml", "k8s/secrets.yaml",
      "k8s/configmap.yaml", "k8s/postgres.yaml", "k8s/api-deployment.yaml",
      "k8s/worker-deployment.yaml", "k8s/frontend-deployment.yaml",
      "k8s/hpa.yaml", "k8s/network-policies.yaml", "k8s/ingress.yaml">>

\* The applies of the run, in the order they were issued.
Applies == SelectSeq(calls, LAMBDA c : c.cmd \in ApplyCmds)

NotFound(manifest) == log_error("Manifest file not found", manifest)

\* C16: the k-th apply of a run is of the k-th manifest of the fixed order
\* and every apply before it succeeded; a file found missing is that of
\* the manifest after the last one applied, is reported last and is never
\* applied; a missing file or a failed apply ends the run
\* with exit 1 as the last thing the run did, the earlier applies left in
\* place (the last apply is the last command of the run).
C16_ManifestsAppliedInFixedOrder ==
    LET applied == Applies
        n == Len(applied)
    IN  /\ n <= Len(FixedOrder)
        /\ \A k \in 1..n :
             /\ applied[k].arg = FixedOrder[k]
             /\ k < n => applied[k].rc = 0
        /\ (out # <<>> /\ out[Len(out)].msg = "Manifest file not found") =>
             /\ n < Len(FixedOrder)
             /\ out[Len(out)] = NotFound(FixedOrder[n + 1])
             /\ pc = "exited" /\ exitCode = 1
             /\ n > 0 => calls[Len(calls)] = applied[n]
        /\ \A i \in 1..Len(out) :
             out[i].msg = "Manifest file not found" => i = Len(out)
        /\ (n > 0 /\ applied[n].rc # 0) =>
             /\ pc = "exited" /\ exitCode = 1
             /\ calls[Len(calls)] = applied[n]

\* Two manifests were applied and the file of the third was missing.
C16_Witness ==
    /\ Len(Applies) = 2 /\ Applies[2].rc = 0 /\ calls[Len(calls)] = Applies[2]
    /\ Printed(NotFound("k8s/secrets.yaml"))
    /\ pc = "exited" /\ exitCode = 1

\* Four manifests were applied and the apply of postgres failed.
C16_WitnessFailedApply ==
    /\ Len(Applies) = 5 /\ Applies[5].arg = "k8s/postgres.yaml" /\ Applies[5].rc # 0
    /\ pc = "exited" /\ exitCode = 1

\* The builds and the loads of the run, in the order they were issued.
Builds == SelectSeq(calls, LAMBDA c : c.cmd \in BuildCmds)
Loads == SelectSeq(calls, LAMBDA c : c.cmd \in LoadCmds)

\* The k-th call of cs is for the k-th service and all but the last succeeded.
InServiceOrder(cs) ==
    /\ Len(cs) <= Len(services)
    /\ \A k \in 1..Len(cs) :
         /\ cs[k].arg = services[k]
         /\ k < Len(cs) => cs[k].rc = 0

\* load_images has returned: apply_manifests was entered.
LoadPhaseCompleted == Printed(log_info("Applying Kubernetes manifests...", ""))

\* C17: in a run that skips neither build nor load, the builds and the loads
\* are each issued once per service in the order api-service,
\* worker-service, frontend-service, a failed one being the last; every load
\* uses the command of the cluster type; and once the load phase has
\* completed all three images have been loaded.  With a cluster type that
\* is neither minikube nor kind the load phase completes with no load.
C17_BuildAndLoadEachImageOnce ==
    NO_BUILD # TRUE /\ NO_LOAD # TRUE =>
        /\ InServiceOrder(Builds)
        /\ InServiceOrder(Loads)
        /\ Len(Loads) > 0 => Len(Builds) = Len(services) /\ Builds[Len(Builds)].rc = 0
        /\ \A k \in 1..Len(Loads) :
             /\ CLUSTER_TYPE = "minikube" => Loads[k].cmd = "minikube image load"
             /\ CLUSTER_TYPE = "kind" => Loads[k].cmd = "kind load docker-image"
        /\ LoadPhaseCompleted =>
             Len(Loads) = Len(services) /\ Loads[Len(Loads)].rc = 0

CleanupFailed ==
    \E i \in 1..Len(calls) : calls[i].cmd \in CleanupCmds /\ Failed(i)

\* C18: when the namespace deletion of cleanup fails, the run has exited
\* with a non-zero status, neither "Cleanup completed" nor "Cleanup
\* completed. Exiting." was printed, the deletion is the last command of the
\* run and no build, load, apply, rollout or rollback command was invoked.
C18_FailedCleanupIsFatal ==
    CleanupFailed =>
        /\ pc = "exited" /\ exitCode \in FailCodes
        /\ ~Printed(log_success("Cleanup completed", ""))
        /\ ~Printed(log_success("Cleanup completed. Exiting.", ""))
        /\ calls[Len(calls)].cmd \in CleanupCmds
        /\ ~Invoked(DeployCmds)

\* The deletion failed in a --cleanup-only run.
C18_Witness ==
    /\ CleanupFailed /\ CLEANUP_ONLY = TRUE /\ CLEANUP_BEFORE = FALSE
    /\ Given("--cleanup-only")
    /\ pc = "exited" /\ exitCode # 0

\* The deletion failed in a --cleanup run.
C18_WitnessCleanupBefore ==
    /\ CleanupFailed /\ CLEANUP_BEFORE = TRUE /\ CLEANUP_ONLY = FALSE
    /\ Given("--cleanup")
    /\ pc = "exited" /\ exitCode # 0

----------------------------------------------------------------------------
\* The argument parsing loop as a function of the command line.

ConfigDefaults ==
    [CLUSTER_TYPE |-> "minikube", NAMESPACE |-> "app", CLEANUP_BEFORE |-> FALSE,
     CLEANUP_ONLY |-> FALSE, NO_BUILD |-> FALSE, NO_LOAD |-> FALSE]

\* Mutant of SetFlag: --cleanup-only takes --cleanup back.
SetFlagExclusive(cfg, t) ==
    CASE t = "--cleanup"      -> [cfg EXCEPT !.CLEANUP_BEFORE = TRUE]
      [] t = "--cleanup-only" -> [cfg EXCEPT !.CLEANUP_ONLY = TRUE, !.CLEANUP_BEFORE = FALSE]
      [] t = "--no-build"     -> [cfg EXCEPT !.NO_BUILD = TRUE]
      [] t = "--no-load"      -> [cfg EXCEPT !.NO_LOAD = TRUE]

\* The four cases that set a flag and shift.
SetFlag(cfg, t) ==
    CASE t = "--cleanup"      -> [cfg EXCEPT !.CLEANUP_BEFORE = TRUE]
      [] t = "--cleanup-only" -> [cfg EXCEPT !.CLEANUP_ONLY = TRUE]
      [] t = "--no-build"     -> [cfg EXCEPT !.NO_BUILD = TRUE]
      [] t = "--no-load"      -> [cfg EXCEPT !.NO_LOAD = TRUE]

\* while [[ $# -gt 0 ]]; do case $1 in ... esac; done: the status the loop
\* exits with (NoStatus when it ends and main starts) and the configuration.
RECURSIVE ParseLoop(_, _)
ParseLoop(a, cfg) ==
    IF a = <<>> THEN [exit |-> NoStatus, cfg |-> cfg]
    ELSE IF IsHelp(Head(a)) THEN [exit |-> 0, cfg |-> cfg]
    ELSE IF IsCluster(Head(a))
    THEN IF Len(a) < 2 THEN [exit |-> 1, cfg |-> cfg]
         ELSE ParseLoop(Drop(a, 2), [cfg EXCEPT !.CLUSTER_TYPE = a[2]])
    ELSE IF IsNamespace(Head(a))
    THEN IF Len(a) < 2 THEN [exit |-> 1, cfg |-> cfg]
         ELSE ParseLoop(Drop(a, 2), [cfg EXCEPT !.NAMESPACE = a[2]])
    ELSE IF IsOption(Head(a)) THEN ParseLoop(Drop(a, 1), SetFlag(cfg, Head(a)))
    ELSE [exit |-> 1, cfg |-> cfg]

ParseOutcome(a) == ParseLoop(a, ConfigDefaults)

\* The units the loop takes a command line apart into, left to right: a
\* token, or -c / -n together with the token that follows it.
RECURSIVE Units(_)
Units(a) ==
    IF a = <<>> THEN <<>>
    ELSE IF (IsCluster(Head(a)) \/ IsNamespace(Head(a))) /\ Len(a) >= 2
    THEN <<SubSeq(a, 1, 2)>> \o Units(Drop(a, 2))
    ELSE <<SubSeq(a, 1, 1)>> \o Units(Drop(a, 1))

\* A flag unit: a boolean flag, or a value flag together with its value.
IsFlagUnit(u) ==
    /\ IsOption(u[1])
    /\ IsCluster(u[1]) \/ IsNamespace(u[1]) => Len(u) = 2

Orders(n) ==
    {p \in [1..n -> 1..n] : \A i, j \in 1..n : p[i] = p[j] => i = j}

RECURSIVE Flatten(_)
Flatten(us) == IF us = <<>> THEN <<>> ELSE Head(us) \o Flatten(Tail(us))

\* The command lines that permute the units of a.
Reorderings(a) ==
    LET us == Units(a)
    IN  {Flatten([i \in 1..Len(us) |-> us[p[i]]]) : p \in Orders(Len(us))}

\* The value flag occurs more than once in a.
Repeated(a, Is(_)) ==
    \E i, j \in 1..Len(Units(a)) : i < j /\ Is(Units(a)[i][1]) /\ Is(Units(a)[j][1])

\* The value of the last occurrence of the value flag in a, if it occurs.
LastValue(a, Is(_), default) ==
    LET us == Units(a)
        at == {i \in 1..Len(us) : Is(us[i][1]) /\ Len(us[i]) = 2}
    IN  IF at = {} THEN default
        ELSE us[CHOOSE i \in at : \A j \in at : j <= i][2]

\* The outcomes of a and of its reordering b are the same: the same exit
\* status, or the same configuration up to a value flag given repeatedly,
\* whose value in each is that of its last occurrence.
SameOutcome(a, b) ==
    LET x == ParseOutcome(a)
        y == ParseOutcome(b)
    IN  /\ x.exit = y.exit
        /\ x.exit = NoStatus =>
             /\ \A f \in {"CLEANUP_BEFORE", "CLEANUP_ONLY", "NO_BUILD", "NO_LOAD"} :
                    x.cfg[f] = y.cfg[f]
             /\ ~Repeated(a, IsCluster) => x.cfg.CLUSTER_TYPE = y.cfg.CLUSTER_TYPE
             /\ ~Repeated(a, IsNamespace) => x.cfg.NAMESPACE = y.cfg.NAMESPACE
             /\ y.cfg.CLUSTER_TYPE = LastValue(b, IsCluster, ConfigDefaults.CLUSTER_TYPE)
             /\ y.cfg.NAMESPACE = LastValue(b, IsNamespace, ConfigDefaults.NAMESPACE)

\* The run agrees with ParseOutcome on its command line: the loop exited
\* with that status before anything ran, or main works with that
\* configuration.
ParsedAsParseOutcome ==
    LET o == ParseOutcome(argv)
    IN  IF o.exit # NoStatus
        THEN StoppedInParsing(o.exit)
        ELSE pc # "parse" =>
               config = <<o.cfg.CLUSTER_TYPE, o.cfg.NAMESPACE, o.cfg.CLEANUP_BEFORE,
                          o.cfg.CLEANUP_ONLY, o.cfg.NO_BUILD, o.cfg.NO_LOAD>>

\* The loop has just ended: main starts, or the loop exited.
LoopEnded ==
    \/ pc = "check_docker"
    \/ pc = "exited" /\ calls = <<>> /\ NothingProbed

Present(tools) == \A t \in tools : installed[t] = "yes"

\* The positions of the record at which a command was invoked.
At(cmd) == {i \in 1..Len(calls) : calls[i].cmd = cmd}

\* C20: minikube start is invoked exactly in the runs whose cluster type is
\* minikube, in which docker, kubectl and minikube were found and whose
\* liveness check failed; it is invoked once, right after the check and
\* before every other command, and when it fails it is the last command and
\* the run exits non-zero.  With cluster type kind neither the liveness
\* check nor the start is ever issued.
C20_MinikubeStartOnlyWhenNotLive ==
    /\ At("minikube start") # {} =>
         /\ CLUSTER_TYPE = "minikube"
         /\ Present({"docker", "kubectl", "minikube"})
         /\ At("minikube status") = {1} /\ Failed(1)
         /\ At("minikube start") = {2}
         /\ Failed(2) => Len(calls) = 2 /\ pc = "exited" /\ exitCode \in FailCodes
    /\ (/\ CLUSTER_TYPE = "minikube"
        /\ Present({"docker", "kubectl", "minikube"})
        /\ pc \notin {"parse", "check_cluster", "minikube_status"}) =>
         /\ At("minikube status") = {1}
         /\ Failed(1) /\ pc # "minikube_start" => At("minikube start") = {2}
         /\ ~Failed(1) => At("minikube start") = {}
    /\ At("minikube status") # {} =>
         CLUSTER_TYPE = "minikube" /\ Present({"docker", "kubectl", "minikube"})
    /\ CLUSTER_TYPE = "kind" => ~Invoked(ValidationCmds)

\* minikube was not live, was started and the run went on to cleanup.
C20_Witness ==
    /\ Len(calls) >= 3
    /\ calls[1].cmd = "minikube status" /\ Failed(1)
    /\ calls[2].cmd = "minikube start" /\ ~Failed(2)
    /\ calls[3].cmd \in CleanupCmds

\* A kind run went through validation to the builds without either command.
C20_WitnessKind ==
    /\ CLUSTER_TYPE = "kind" /\ Present({"docker", "kubectl", "kind"})
    /\ Invoked(BuildCmds) /\ ~Invoked(ValidationCmds)

\* main has started: the loop ended without an exit.
MainStarted == pc # "parse" /\ ParseOutcome(argv).exit = NoStatus

NamespaceGiven == \E i \in OptionPositions(argv, 1) : IsNamespace(argv[i])

\* C21: once main has started the namespace is not the empty string: it is
\* "app" when -n is not given, and no command is ever issued with an empty
\* namespace (neither the deletion of cleanup nor a rollout command).
\* `-n ""` is accepted and main runs with the empty namespace.
C21_NamespaceNonEmpty ==
    MainStarted =>
        /\ NAMESPACE # ""
        /\ ~NamespaceGiven => NAMESPACE = "app"
        /\ \A i \in 1..Len(calls) :
             /\ calls[i].cmd \in CleanupCmds => calls[i].arg # ""
             /\ calls[i].cmd \in RolloutCmds \cup RollbackCmds => calls[i].ns # ""

\* C22: the pool is ended only by shutdown, after the server stopped
\* listening and every connection was closed; every pool.query of a /health
\* or /api/time request met the open pool, so no response reports a pool
\* that was ended, whatever the interleaving of requests and signals; and a
\* process that has exited, on the graceful path, on the forced path or when
\* the event loop ran empty, exited with status 0.
C22_PoolEndedAfterServerClosed ==
    /\ pool # "open" =>
         /\ signals > 0 /\ ~listening
         /\ \A c \in ConnIds : ~conns[c].sock
    /\ \A q \in queries : q.pool = "open"
    /\ \A c \in Pending : conns[c].poolWas = "open"
    /\ \A r \in responses :
         "error" \in DOMAIN r.body => r.body.error # PoolEndedMessage
    /\ exitPath \in {"running", "graceful", "forced", "natural"}
    /\ IF exitPath = "running" THEN Alive ELSE apiExit = 0

\* A second signal arrived during the drain, while the query of a request
\* was in flight on a connection still open: the pool is still open.
C22_Witness ==
    /\ Alive /\ signals = 2 /\ ~listening /\ pool = "open"
    /\ \E c \in ConnIds : conns[c].sock /\ conns[c].handler \in {"/health", "/api/time"}
    /\ closeListeners = 2 /\ ~closePending

\* The graceful path after two signals: the second pool.end() exits.
C22_WitnessGraceful ==
    /\ signals = 2 /\ exitPath = "graceful" /\ apiExit = 0 /\ pool = "ending"
    /\ queries # {} /\ responded > 0

\* The forced path with a query still in flight.
C22_WitnessForced ==
    /\ exitPath = "forced" /\ apiExit = 0 /\ pool = "open"
    /\ Pending # {}

====
